---- MODULE Spec2Model ----
(***************************************************************************)
(* The flock update of src/main.rs (a nannou boids simulation): the flock  *)
(* built by model(), and update(), which snapshots the positions and then, *)
(* agent by agent, applies separate(), the speed clamp, the direction      *)
(* decision and the position integration.                                  *)
(*                                                                         *)
(* Numbers.  The program computes in f32.  The model computes in fixed     *)
(* point: a value v is the integer v * Scale, Scale = 200 units per 1.0,   *)
(* the resolution at which avoid_factor = 0.005 is exactly 1/Scale.  Sums  *)
(* and differences are exact; the one product of the program,              *)
(* close_d * avoid_factor, is rounded to the nearest unit (ties to even),  *)
(* as an f32 product is rounded to the nearest representable value.        *)
(*                                                                         *)
(* Indices.  Rust's agent i (0-based) is element i + 1 of the sequences.   *)
(***************************************************************************)
EXTENDS Integers, Sequences, FiniteSets

VARIABLES
    boids,      \* _model._boids: the ordered flock
    params,     \* _model._params
    boundary,   \* _app.window_rect(): the viewport the next tick will read
    hist        \* history: one entry per tick run so far (see update)

vars == <<boids, params, boundary, hist>>

----------------------------------------------------------------------------
(* Program constants *)

PROTECTED_RANGE == 15
AVOID_FACTOR_INV == 200      \* AVOID_FACTOR = 0.005 = 1 / 200
MAX_SPEED == 6
MIN_SPEED == 3
MARGIN == 10                 \* the literal 10.0 of the four threshold tests
NUM_BOIDS == 10              \* for i in 0..10

(* Bounds of the model *)

MaxTicks == 3                \* ticks run in one behaviour
MaxBoids == 3                \* largest flock of the general-flock specification
MaxBoidsAny == 2             \* largest flock of the any-velocity specification

----------------------------------------------------------------------------
(* Fixed point *)

Scale == AVOID_FACTOR_INV

F(n) == n * Scale

Abs(n) == IF n < 0 THEN -n ELSE n

\* n / d rounded to the nearest integer, ties to the even one (d > 0)
RoundDiv(n, d) ==
    LET q == n \div d
        r == n % d
    IN  IF 2 * r < d THEN q
        ELSE IF 2 * r > d THEN q + 1
        ELSE IF q % 2 = 0 THEN q ELSE q + 1

\* x * avoid_factor
MulAvoidFactor(x, avoid_factor_inv) == RoundDiv(x, avoid_factor_inv)

\* geom::Rect of a w x h window: nannou centres the window rectangle at the origin
Rect(w, h) ==
    [left |-> -(F(w) \div 2), right |-> F(w) \div 2,
     bottom |-> -(F(h) \div 2), top |-> F(h) \div 2]

----------------------------------------------------------------------------
(* Flock State *)

Params ==
    [turnfactor |-> "0.2", visual_range |-> "40.0",
     protected_range |-> F(PROTECTED_RANGE),
     centering_factor |-> "0.0005",
     avoid_factor_inv |-> AVOID_FACTOR_INV,
     matching_factor |-> "0.05",
     max_speed |-> F(MAX_SPEED), min_speed |-> "3.0",
     max_bias |-> "0.01", bias_increment |-> "0.00004",
     default_bias_val |-> "0.001"]

Boid(position, velocity, direction_x, direction_y) ==
    [position |-> position, velocity |-> velocity,
     direction_x |-> direction_x, direction_y |-> direction_y]

\* (variant: the index counted from 1)
RECURSIVE ModelLoopOffByOne(_, _, _)
ModelLoopOffByOne(acc, k, n) ==
    IF k >= n THEN acc
    ELSE ModelLoopOffByOne(
            Append(acc, Boid(<<F(-100) + (k + 1) * F(10), F(100) + (k + 1) * F(30)>>,
                             <<F(4), F(3)>>, "Right", "Top")),
            k + 1, n)

\* lines 121-132: the loop of model(), which pushes agent i (0-based) for
\* i in k..n-1 onto acc
RECURSIVE ModelLoop(_, _, _)
ModelLoop(acc, k, n) ==
    IF k >= n THEN acc
    ELSE ModelLoop(
            Append(acc, Boid(<<F(-100) + k * F(10), F(100) + k * F(30)>>,
                             <<F(4), F(3)>>, "Right", "Top")),
            k + 1, n)

model == ModelLoop(<<>>, 0, NUM_BOIDS)

----------------------------------------------------------------------------
(* Update Engine *)

\* (variant: the last agent is left out of the snapshot)
SnapshotShort(bs) == [j \in 1..(Len(bs) - 1) |-> bs[j].position]

\* lines 145-149: the positions of all agents, in flock order
Snapshot(bs) == [j \in 1..Len(bs) |-> bs[j].position]

NoClose == [close_dx |-> 0, close_dy |-> 0, peers |-> {}]

\* (variant: both axes must be within range)
TooCloseAnd(d, protected_range) ==
    Abs(d[1]) < protected_range /\ Abs(d[2]) < protected_range

\* (variant: the displacement is compared as it is, sign included)
TooCloseSigned(d, protected_range) ==
    d[1] < protected_range \/ d[2] < protected_range

\* line 75, for the displacement d of self from a peer
TooClose(d, protected_range) ==
    Abs(d[1]) < protected_range \/ Abs(d[2]) < protected_range

\* (variant: the scan skips nothing)
SkipNone(i, current_boid_index) == FALSE

\* lines 70-72: whether the scan skips entry i of the snapshot
Skip(i, current_boid_index) == i = current_boid_index

\* lines 69-79: the scan of the snapshot from entry i on.  acc holds close_dx
\* and close_dy and, as a record of the scan, the entries that were added.
RECURSIVE Scan(_, _, _, _, _, _)
Scan(self, boid_positions, current_boid_index, protected_range, i, acc) ==
    IF i > Len(boid_positions) THEN acc
    ELSE IF Skip(i, current_boid_index)
    THEN Scan(self, boid_positions, current_boid_index, protected_range, i + 1, acc)
    ELSE LET other_boid_position == boid_positions[i]
             distance == <<self.position[1] - other_boid_position[1],
                           self.position[2] - other_boid_position[2]>>
         IN  IF TooClose(distance, protected_range)
             THEN Scan(self, boid_positions, current_boid_index, protected_range, i + 1,
                       [close_dx |-> acc.close_dx + (self.position[1] - other_boid_position[1]),
                        close_dy |-> acc.close_dy + (self.position[2] - other_boid_position[2]),
                        peers |-> acc.peers \cup {i}])
             ELSE Scan(self, boid_positions, current_boid_index, protected_range, i + 1, acc)

\* (variant: the position is moved toward the near peers)
NudgeToward(position, close, avoid_factor_inv) ==
    <<position[1] - MulAvoidFactor(close.close_dx, avoid_factor_inv),
      position[2] - MulAvoidFactor(close.close_dy, avoid_factor_inv)>>

\* lines 81-82: the nudge of the position by the accumulated displacement
Nudge(position, close, avoid_factor_inv) ==
    <<position[1] + MulAvoidFactor(close.close_dx, avoid_factor_inv),
      position[2] + MulAvoidFactor(close.close_dy, avoid_factor_inv)>>

\* (variant: the accumulated displacement steers the velocity as well)
separateSteering(self, boid_positions, current_boid_index, avoid_factor_inv, protected_range, max_speed) ==
    LET close == Scan(self, boid_positions, current_boid_index, protected_range, 1, NoClose)
    IN  [self EXCEPT !.position = Nudge(self.position, close, avoid_factor_inv),
                     !.velocity = Nudge(self.velocity, close, avoid_factor_inv)]

\* Boid::separate: self after the call
separate(self, boid_positions, current_boid_index, avoid_factor_inv, protected_range, max_speed) ==
    LET close == Scan(self, boid_positions, current_boid_index, protected_range, 1, NoClose)
    IN  [self EXCEPT !.position = Nudge(self.position, close, avoid_factor_inv)]

\* (variant: a clamp from below to min_speed as well)
ClampSpeedFloor(v, max_speed) ==
    IF v > max_speed THEN max_speed
    ELSE IF v < F(MIN_SPEED) THEN F(MIN_SPEED) ELSE v

\* lines 163-169, one axis
ClampSpeed(v, max_speed) == IF v > max_speed THEN max_speed ELSE v

\* (variant: the flag is reversed at a threshold instead of set)
DirectionXToggle(x, direction_x, b) ==
    IF x >= b.right - F(MARGIN) \/ x <= b.left + F(MARGIN)
    THEN (IF direction_x = "Right" THEN "Left" ELSE "Right")
    ELSE direction_x

\* (variant: the thresholds are the edges themselves, without the margin)
DirectionXNoMargin(x, direction_x, b) ==
    IF x >= b.right THEN "Left"
    ELSE IF x <= b.left THEN "Right"
    ELSE direction_x

\* (variant: the left threshold is tested before the right one)
DirectionXLowerFirst(x, direction_x, b) ==
    IF x <= b.left + F(MARGIN) THEN "Right"
    ELSE IF x >= b.right - F(MARGIN) THEN "Left"
    ELSE direction_x

\* lines 170-174
DirectionX(x, direction_x, b) ==
    IF x >= b.right - F(MARGIN) THEN "Left"
    ELSE IF x <= b.left + F(MARGIN) THEN "Right"
    ELSE direction_x

\* (variant: the two flags of the axis exchanged)
DirectionYInverted(y, direction_y, b) ==
    IF y >= b.top - F(MARGIN) THEN "Top"
    ELSE IF y <= b.bottom + F(MARGIN) THEN "Bottom"
    ELSE direction_y

\* lines 176-180
DirectionY(y, direction_y, b) ==
    IF y >= b.top - F(MARGIN) THEN "Bottom"
    ELSE IF y <= b.bottom + F(MARGIN) THEN "Top"
    ELSE direction_y

\* (variant: the velocity is added whatever the flag)
MoveXAlwaysAdd(x, vx, direction_x) == x + vx

\* lines 182-185
MoveX(x, vx, direction_x) == IF direction_x = "Left" THEN x - vx ELSE x + vx

\* (variant: the velocity is added whatever the flag)
MoveYAlwaysAdd(y, vy, direction_y) == y + vy

\* lines 187-190
MoveY(y, vy, direction_y) == IF direction_y = "Top" THEN y + vy ELSE y - vy

\* (variant: the position is integrated with the flags the agent came with,
\* and the flags are decided afterwards)
UpdateBoidMoveFirst(boid, snapshot, i, p, b) ==
    LET s  == separate(boid, snapshot, i, p.avoid_factor_inv, p.protected_range, p.max_speed)
        vx == ClampSpeed(s.velocity[1], p.max_speed)
        vy == ClampSpeed(s.velocity[2], p.max_speed)
        x  == MoveX(s.position[1], vx, s.direction_x)
        y  == MoveY(s.position[2], vy, s.direction_y)
    IN  Boid(<<x, y>>, <<vx, vy>>,
             DirectionX(x, s.direction_x, b), DirectionY(y, s.direction_y, b))

\* lines 154-190: the body of the loop for agent i, as the agent after it
UpdateBoid(boid, snapshot, i, p, b) ==
    LET s  == separate(boid, snapshot, i, p.avoid_factor_inv, p.protected_range, p.max_speed)
        vx == ClampSpeed(s.velocity[1], p.max_speed)
        vy == ClampSpeed(s.velocity[2], p.max_speed)
        dx == DirectionX(s.position[1], s.direction_x, b)
        dy == DirectionY(s.position[2], s.direction_y, b)
    IN  Boid(<<MoveX(s.position[1], vx, dx), MoveY(s.position[2], vy, dy)>>,
             <<vx, vy>>, dx, dy)

\* What the body of the loop computed for agent i on the way: the scan's
\* result and the agent as separate left it, sep being its position (a
\* record of the tick, not state of the program).
StepLog(boid, snapshot, i, p) ==
    LET close == Scan(boid, snapshot, i, p.protected_range, 1, NoClose)
        s == separate(boid, snapshot, i, p.avoid_factor_inv,
                      p.protected_range, p.max_speed)
    IN  [close_dx |-> close.close_dx, close_dy |-> close.close_dy,
         peers |-> close.peers,
         sep |-> s.position, sep_velocity |-> s.velocity,
         sep_direction_x |-> s.direction_x, sep_direction_y |-> s.direction_y]

\* (variant: the snapshot is taken again before every agent)
RECURSIVE UpdateLoopLive(_, _, _, _, _, _)
UpdateLoopLive(st, snapshot, order, k, p, b) ==
    IF k > Len(order) THEN st
    ELSE LET i == order[k]
             next == [boids |-> [st.boids EXCEPT ![i] = UpdateBoid(st.boids[i], snapshot, i, p, b)],
                      log |-> [st.log EXCEPT ![i] = StepLog(st.boids[i], snapshot, i, p)]]
         IN  UpdateLoopLive(next, Snapshot(next.boids), order, k + 1, p, b)

\* lines 153-191: the loop over the agents, from the k-th agent of `order` on
\* (update runs it with order 0, 1, .., len - 1).  st.boids is the flock as
\* mutated so far, st.log the record of the agents processed so far.
RECURSIVE UpdateLoop(_, _, _, _, _, _)
UpdateLoop(st, snapshot, order, k, p, b) ==
    IF k > Len(order) THEN st
    ELSE LET i == order[k]
         IN  UpdateLoop(
                [boids |-> [st.boids EXCEPT ![i] = UpdateBoid(st.boids[i], snapshot, i, p, b)],
                 log |-> [st.log EXCEPT ![i] = StepLog(st.boids[i], snapshot, i, p)]],
                snapshot, order, k + 1, p, b)

NoLog ==
    [close_dx |-> 0, close_dy |-> 0, peers |-> {}, sep |-> <<0, 0>>,
     sep_velocity |-> <<0, 0>>, sep_direction_x |-> "Right",
     sep_direction_y |-> "Top"]

\* update, run on flock bs with `order` as the order of the loop
UpdateIn(bs, order, p, b) ==
    UpdateLoop([boids |-> bs, log |-> [j \in 1..Len(bs) |-> NoLog]],
               Snapshot(bs), order, 1, p, b)

RustOrder(bs) == [j \in 1..Len(bs) |-> j]

Ticks == Len(hist)

\* fn update: one tick against the current window rectangle
Update ==
    /\ Ticks < MaxTicks
    /\ LET st == UpdateIn(boids, RustOrder(boids), params, boundary)
       IN  /\ boids' = st.boids
           /\ hist' = Append(hist, [boids |-> boids, boundary |-> boundary, log |-> st.log])
    /\ UNCHANGED <<params, boundary>>

----------------------------------------------------------------------------
(* The shipped program: the flock of model(), ticks, and the window being  *)
(* resized between ticks.                                                   *)

Windows == {<<800, 600>>, <<1024, 768>>, <<160, 160>>}

Resize ==
    /\ \E wh \in Windows :
          /\ Rect(wh[1], wh[2]) # boundary
          /\ boundary' = Rect(wh[1], wh[2])
    /\ UNCHANGED <<boids, params, hist>>

Init ==
    /\ boids = model
    /\ params = Params
    /\ boundary \in {Rect(wh[1], wh[2]) : wh \in Windows}
    /\ hist = <<>>

Next == Update \/ Resize

Spec == Init /\ [][Next]_vars

----------------------------------------------------------------------------
(* General flocks.  update is a function of the flock, the parameters and  *)
(* the window rectangle; these specifications run it from every flock of a *)
(* bounded family instead of the one flock model() builds.  The window is  *)
(* chosen at the start and kept.                                            *)

\* Start positions (whole units) and flags, chosen against the 800 x 600
\* window: at right - 5, at left + 5, at the centre column under the top
\* edge, one under the first above the bottom edge, and an agent heading
\* Left and Bottom exactly protected_range left of the first.
Starts ==
    {<<395, 0, "Right", "Top">>, <<-395, 0, "Right", "Top">>,
     <<0, 295, "Right", "Top">>, <<395, -295, "Right", "Top">>,
     <<380, 20, "Left", "Bottom">>}

StartsAny == {<<395, 0, "Right", "Top">>, <<-395, 0, "Left", "Bottom">>}

\* velocities (whole units): the shipped one, and ones above max_speed, at
\* max_speed, below min_speed and below zero
Velocities == {<<4, 3>>, <<8, 2>>, <<-2, 7>>, <<6, 0>>}

FlockWindows == {<<800, 600>>, <<24, 24>>, <<16, 16>>}

FlockAgents ==
    {Boid(<<F(s[1]), F(s[2])>>, <<F(4), F(3)>>, s[3], s[4]) : s \in Starts}

AnyAgents ==
    {Boid(<<F(s[1]), F(s[2])>>, <<F(v[1]), F(v[2])>>, s[3], s[4]) :
        s \in StartsAny, v \in Velocities}

InitFlock ==
    /\ \E n \in 0..MaxBoids : boids \in [1..n -> FlockAgents]
    /\ params = Params
    /\ boundary \in {Rect(wh[1], wh[2]) : wh \in FlockWindows}
    /\ hist = <<>>

InitAny ==
    /\ \E n \in 0..MaxBoidsAny : boids \in [1..n -> AnyAgents]
    /\ params = Params
    /\ boundary \in {Rect(wh[1], wh[2]) : wh \in FlockWindows}
    /\ hist = <<>>

SpecFlock == InitFlock /\ [][Update]_vars

SpecAny == InitAny /\ [][Update]_vars

\* the flock of model() and the any-velocity flocks together, each ticking
\* against the window it started with
InitFrame == Init \/ InitAny

SpecFrame == InitFrame /\ [][Update]_vars

----------------------------------------------------------------------------
(* Vocabulary of the properties *)

N == Len(boids)

\* the tick that ran last: the flock and window it started from, its record
Last == hist[Len(hist)]

RECURSIVE SumOver(_, _, _)
\* the sum of g[j] over j in S
SumOver(S, g, zero) ==
    IF S = {} THEN zero
    ELSE LET j == CHOOSE x \in S : TRUE
         IN  g[j] + SumOver(S \ {j}, g, zero)

\* displacement of agent i from agent j in flock bs, on axis a
Disp(bs, i, j, a) == bs[i].position[a] - bs[j].position[a]

\* the peers of agent i in flock bs within protected_range on some axis
Near(bs, i) ==
    {j \in (1..Len(bs)) \ {i} :
        \/ Abs(Disp(bs, i, j, 1)) < F(PROTECTED_RANGE)
        \/ Abs(Disp(bs, i, j, 2)) < F(PROTECTED_RANGE)}

Orders(n) == {f \in [1..n -> 1..n] : \A a, b \in 1..n : f[a] = f[b] => a = b}

----------------------------------------------------------------------------
\* C1 (snapshot isolation).  In every tick, what the scan of agent i
\* accumulated and where separate put it are those computed from the
\* positions all agents had when the tick started, and the flock after the
\* tick is the same whatever the order in which the loop takes the agents.
C1_SnapshotIsolation ==
    Ticks > 0 =>
        /\ \A i \in 1..N :
              Last.log[i] = StepLog(Last.boids[i], Snapshot(Last.boids), i, params)
        /\ \A order \in Orders(N) :
              UpdateIn(Last.boids, order, params, Last.boundary).boids = boids

\* a tick in which agent i accumulated a peer j that the loop had already
\* moved when it came to i
C1_Witness ==
    /\ Ticks > 0
    /\ \E i \in 1..N : \E j \in 1..(i - 1) :
          /\ j \in Last.log[i].peers
          /\ boids[j].position # Last.boids[j].position
          /\ Last.boids[j].position # Last.boids[i].position

\* C2 (proximity trigger).  In every tick, peer j was added by the scan of
\* agent i exactly when |d.x| < protected_range or |d.y| < protected_range
\* for d = position[i] - position[j] at the start of the tick, and close_dx
\* and close_dy are the sums of d.x and of d.y over those same peers.
C2_ProximityTrigger ==
    Ticks > 0 =>
        \A i \in 1..N :
            /\ \A j \in (1..N) \ {i} :
                  j \in Last.log[i].peers
                     <=> \/ Abs(Disp(Last.boids, i, j, 1)) < F(PROTECTED_RANGE)
                         \/ Abs(Disp(Last.boids, i, j, 2)) < F(PROTECTED_RANGE)
            /\ Last.log[i].close_dx
                  = SumOver(Last.log[i].peers \ {i},
                            [j \in 1..N |-> Disp(Last.boids, i, j, 1)], 0)
            /\ Last.log[i].close_dy
                  = SumOver(Last.log[i].peers \ {i},
                            [j \in 1..N |-> Disp(Last.boids, i, j, 2)], 0)

\* a tick in which one peer within range on x only was added, with its
\* displacement on both axes, and another, exactly protected_range away on x
\* and further on y, was not
C2_Witness ==
    /\ Ticks > 0
    /\ \E i \in 1..N : \E j, k \in (1..N) \ {i} :
          /\ Abs(Disp(Last.boids, i, j, 1)) < F(PROTECTED_RANGE)
          /\ Abs(Disp(Last.boids, i, j, 2)) >= F(PROTECTED_RANGE)
          /\ Last.log[i].peers = {j}
          /\ Last.log[i].close_dx = Disp(Last.boids, i, j, 1)
          /\ Last.log[i].close_dy = Disp(Last.boids, i, j, 2)
          /\ Abs(Disp(Last.boids, i, k, 1)) = F(PROTECTED_RANGE)
          /\ Abs(Disp(Last.boids, i, k, 2)) > F(PROTECTED_RANGE)

\* C3 (self-exclusion).  In every tick, the scan of agent i never adds entry
\* i of the snapshot: the entries added are peers j # i, close_dx and
\* close_dy are sums over the near peers j # i, and a peer at the very
\* position of agent i is added.
C3_SelfExclusion ==
    Ticks > 0 =>
        \A i \in 1..N :
            /\ i \notin Last.log[i].peers
            /\ Last.log[i].peers = Near(Last.boids, i)
            /\ \A j \in (1..N) \ {i} :
                  Last.boids[j].position = Last.boids[i].position
                     => j \in Last.log[i].peers
            /\ <<Last.log[i].close_dx, Last.log[i].close_dy>>
                  = <<SumOver(Near(Last.boids, i),
                              [j \in 1..N |-> Disp(Last.boids, i, j, 1)], 0),
                      SumOver(Near(Last.boids, i),
                              [j \in 1..N |-> Disp(Last.boids, i, j, 2)], 0)>>

\* a tick in which agent i had a peer at its own position, which was added,
\* while entry i was not
C3_Witness ==
    /\ Ticks > 0
    /\ \E i \in 1..N : \E j \in (1..N) \ {i} :
          /\ Last.boids[j].position = Last.boids[i].position
          /\ j \in Last.log[i].peers
          /\ i \notin Last.log[i].peers

----------------------------------------------------------------------------
\* the flock after tick t
FlockAfter(t) == IF t = Len(hist) THEN boids ELSE hist[t + 1].boids

\* what separate added to the position of agent i in tick t, on axis a
NudgeOf(t, i, a) == hist[t].log[i].sep[a] - hist[t].boids[i].position[a]

\* agent i started tick t at boundary.right - 5
PlacedNearRight(t, i) ==
    hist[t].boids[i].position[1] = hist[t].boundary.right - F(5)

----------------------------------------------------------------------------
\* the first tick of the flock of model() ran against a w x h window
FirstTickIn(w, h) == Ticks >= 1 /\ hist[1].boundary = Rect(w, h)

\* the flock of model(), as the specification states it
Staggered ==
    [i \in 1..10 |->
        [position |-> <<F(-100) + (i - 1) * F(10), F(100) + (i - 1) * F(30)>>,
         velocity |-> <<F(4), F(3)>>,
         direction_x |-> "Right", direction_y |-> "Top"]]

\* C5 as stated: after one tick of the flock of model() against the 800 x 600
\* window, all 10 positions differ from the initial ones and every agent is
\* still Right and Top.
C5_Original ==
    FirstTickIn(800, 600) =>
        \A i \in 1..10 :
            /\ FlockAfter(1)[i].position # Staggered[i].position
            /\ FlockAfter(1)[i].direction_x = "Right"
            /\ FlockAfter(1)[i].direction_y = "Top"

\* C5 (end-to-end scenario), amended.  After one tick of the flock of model()
\* against the 800 x 600 window, all 10 positions differ from the initial
\* ones, every agent is still Right, the agents 0..6 are still Top, and the
\* agents 7, 8 and 9, which start at y = 310, 340 and 370, at or above
\* top - margin = 290, are Bottom and have moved down.  Against the
\* 1024 x 768 window every agent is still Right and Top.
C5_EndToEnd ==
    /\ FirstTickIn(800, 600) =>
          \A i \in 1..10 :
              /\ FlockAfter(1)[i].position[1] # Staggered[i].position[1]
              /\ FlockAfter(1)[i].position[2] # Staggered[i].position[2]
              /\ FlockAfter(1)[i].direction_x = "Right"
              /\ FlockAfter(1)[i].direction_y = (IF i <= 7 THEN "Top" ELSE "Bottom")
              /\ i > 7 => FlockAfter(1)[i].position[2] < Staggered[i].position[2]
    /\ FirstTickIn(1024, 768) =>
          \A i \in 1..10 :
              /\ FlockAfter(1)[i].position # Staggered[i].position
              /\ FlockAfter(1)[i].direction_x = "Right"
              /\ FlockAfter(1)[i].direction_y = "Top"

\* the flock of model() one tick after its start against the 800 x 600
\* window: the last agent has been nudged up and right by its one near peer,
\* turned Bottom, and moved
C5_Witness ==
    /\ Ticks = 1
    /\ hist[1].boids = Staggered
    /\ hist[1].boundary = Rect(800, 600)
    /\ hist[1].log[10].peers = {9}
    /\ boids[10].direction_y = "Bottom"
    /\ boids[10].position = <<F(-10) + 10 + F(4), F(370) + 30 - F(3)>>

\* C6 (speed clamp).  After every tick, both velocity components of every
\* agent are at most max_speed, and a component that was at most max_speed
\* before the tick (below min_speed and below zero included) is unchanged.
C6_SpeedClamp ==
    Ticks > 0 =>
        \A i \in 1..N : \A a \in 1..2 :
            /\ boids[i].velocity[a] <= F(MAX_SPEED)
            /\ Last.boids[i].velocity[a] <= F(MAX_SPEED)
                  => boids[i].velocity[a] = Last.boids[i].velocity[a]
            /\ Last.boids[i].velocity[a] > F(MAX_SPEED)
                  => boids[i].velocity[a] = F(MAX_SPEED)

\* a tick that cut 8 to max_speed and left 2 (below min_speed) alone in one
\* agent, and left -2 alone and cut 7 in another
C6_Witness ==
    /\ Ticks > 0
    /\ \E i, j \in 1..N :
          /\ Last.boids[i].velocity = <<F(8), F(2)>>
          /\ boids[i].velocity = <<F(MAX_SPEED), F(2)>>
          /\ Last.boids[j].velocity = <<F(-2), F(7)>>
          /\ boids[j].velocity = <<F(-2), F(MAX_SPEED)>>

\* velocity applied on axis a in the sign of the flags of boid
SignedVelocity(boid, a) ==
    IF a = 1
    THEN (IF boid.direction_x = "Right" THEN boid.velocity[1] ELSE -boid.velocity[1])
    ELSE (IF boid.direction_y = "Top" THEN boid.velocity[2] ELSE -boid.velocity[2])

\* C7 as stated: in every tick, the position of each agent after the tick
\* less its position before is its velocity in the sign of its flags.
C7_Original ==
    Ticks > 0 =>
        \A i \in 1..N : \A a \in 1..2 :
            boids[i].position[a] - Last.boids[i].position[a]
                = SignedVelocity(boids[i], a)

\* C7 (displacement), amended.  In every tick, the position of each agent
\* after the tick less its position after the separation nudge is its
\* velocity in the sign of its flags, whatever the sign of the velocity; its
\* displacement over the whole tick is that plus the nudge,
\* close_d * avoid_factor.
C7_Displacement ==
    Ticks > 0 =>
        \A i \in 1..N :
            /\ boids[i].position[1] - Last.log[i].sep[1] = SignedVelocity(boids[i], 1)
            /\ boids[i].position[2] - Last.log[i].sep[2] = SignedVelocity(boids[i], 2)
            /\ boids[i].position[1] - Last.boids[i].position[1]
                  = RoundDiv(Last.log[i].close_dx, AVOID_FACTOR_INV)
                       + SignedVelocity(boids[i], 1)
            /\ boids[i].position[2] - Last.boids[i].position[2]
                  = RoundDiv(Last.log[i].close_dy, AVOID_FACTOR_INV)
                       + SignedVelocity(boids[i], 2)

\* a tick in which an agent with a negative velocity.x and flag Left was
\* nudged and moved right, by the nudge and by its velocity subtracted
C7_Witness ==
    /\ Ticks > 0
    /\ \E i \in 1..N :
          /\ boids[i].velocity[1] < 0
          /\ boids[i].direction_x = "Left"
          /\ Last.log[i].close_dx # 0
          /\ boids[i].position[1] - Last.log[i].sep[1] = -boids[i].velocity[1]
          /\ boids[i].position[1] > Last.log[i].sep[1]

\* C8 (deterministic construction).  Before the first tick the flock is the
\* one sequence the specification states: 10 agents, agent i at
\* (-100 + 10 i, 100 + 30 i), all with velocity (4, 3) and flags Right and
\* Top, with the parameters of the constants; nothing else can start a run.
C8_DeterministicConstruction ==
    Ticks = 0 =>
        /\ Len(boids) = 10
        /\ \A i \in 1..10 : boids[i] = Staggered[i]
        /\ params.avoid_factor_inv = AVOID_FACTOR_INV
        /\ params.protected_range = F(PROTECTED_RANGE)
        /\ params.max_speed = F(MAX_SPEED)

\* the start of a run: the last of the 10 agents is at (-10, 370)
C8_Witness ==
    /\ Ticks = 0
    /\ Len(boids) = 10
    /\ boids[10].position = <<F(-10), F(370)>>
    /\ boids[1].position = <<F(-100), F(100)>>

----------------------------------------------------------------------------
\* the position of agent i on axis a when tick t decided its flags: the one
\* separate left it at
Decided(t, i, a) == hist[t].log[i].sep[a]

\* the four comparisons of tick t for agent i
AtRight(t, i)  == Decided(t, i, 1) >= hist[t].boundary.right - F(MARGIN)
AtLeft(t, i)   == Decided(t, i, 1) <= hist[t].boundary.left + F(MARGIN)
AtTop(t, i)    == Decided(t, i, 2) >= hist[t].boundary.top - F(MARGIN)
AtBottom(t, i) == Decided(t, i, 2) <= hist[t].boundary.bottom + F(MARGIN)

\* C9 as stated: in every tick, direction_x becomes Left when
\* position.x >= boundary.right - margin, becomes Right when
\* position.x <= boundary.left + margin and otherwise keeps its value, and
\* direction_y likewise with Bottom, Top and the top and bottom thresholds.
C9_Original ==
    \A t \in 1..Ticks : \A i \in 1..N :
        /\ AtRight(t, i) => FlockAfter(t)[i].direction_x = "Left"
        /\ AtLeft(t, i) => FlockAfter(t)[i].direction_x = "Right"
        /\ (~AtRight(t, i) /\ ~AtLeft(t, i))
              => FlockAfter(t)[i].direction_x = hist[t].boids[i].direction_x
        /\ AtTop(t, i) => FlockAfter(t)[i].direction_y = "Bottom"
        /\ AtBottom(t, i) => FlockAfter(t)[i].direction_y = "Top"
        /\ (~AtTop(t, i) /\ ~AtBottom(t, i))
              => FlockAfter(t)[i].direction_y = hist[t].boids[i].direction_y

\* C9 (direction transition function), amended.  In every tick, with margin
\* 10 and the position separate left: direction_x becomes Left when
\* position.x >= boundary.right - margin, becomes Right when
\* position.x <= boundary.left + margin and position.x is not also
\* >= boundary.right - margin, and otherwise keeps its value; direction_y
\* becomes Bottom when position.y >= boundary.top - margin, becomes Top when
\* position.y <= boundary.bottom + margin and position.y is not also
\* >= boundary.top - margin, and otherwise keeps its value.  Two agents with
\* the same position.x and direction_x get the same direction_x whatever
\* their position.y, and likewise for y.
C9_DirectionTransition ==
    \A t \in 1..Ticks : \A i \in 1..N :
        /\ AtRight(t, i) => FlockAfter(t)[i].direction_x = "Left"
        /\ (AtLeft(t, i) /\ ~AtRight(t, i)) => FlockAfter(t)[i].direction_x = "Right"
        /\ (~AtRight(t, i) /\ ~AtLeft(t, i))
              => FlockAfter(t)[i].direction_x = hist[t].boids[i].direction_x
        /\ AtTop(t, i) => FlockAfter(t)[i].direction_y = "Bottom"
        /\ (AtBottom(t, i) /\ ~AtTop(t, i)) => FlockAfter(t)[i].direction_y = "Top"
        /\ (~AtTop(t, i) /\ ~AtBottom(t, i))
              => FlockAfter(t)[i].direction_y = hist[t].boids[i].direction_y
        /\ \A j \in 1..N :
              /\ ( /\ Decided(t, j, 1) = Decided(t, i, 1)
                   /\ hist[t].boids[j].direction_x = hist[t].boids[i].direction_x )
                    => FlockAfter(t)[j].direction_x = FlockAfter(t)[i].direction_x
              /\ ( /\ Decided(t, j, 2) = Decided(t, i, 2)
                   /\ hist[t].boids[j].direction_y = hist[t].boids[i].direction_y )
                    => FlockAfter(t)[j].direction_y = FlockAfter(t)[i].direction_y

\* a tick in which two agents in one column, both heading Right, were both
\* turned Left, one of them at the bottom threshold and the other at no
\* threshold of y, while a third agent, at no threshold, kept Left and Bottom
C9_Witness ==
    \E t \in 1..Ticks : \E i, j, k \in 1..N :
        /\ Decided(t, i, 1) = Decided(t, j, 1)
        /\ Decided(t, i, 2) # Decided(t, j, 2)
        /\ hist[t].boids[i].direction_x = "Right"
        /\ hist[t].boids[j].direction_x = "Right"
        /\ AtRight(t, i) /\ ~AtLeft(t, i)
        /\ FlockAfter(t)[i].direction_x = "Left"
        /\ FlockAfter(t)[j].direction_x = "Left"
        /\ AtBottom(t, i) /\ ~AtTop(t, j) /\ ~AtBottom(t, j)
        /\ ~AtRight(t, k) /\ ~AtLeft(t, k) /\ ~AtTop(t, k) /\ ~AtBottom(t, k)
        /\ hist[t].boids[k].direction_x = "Left"
        /\ hist[t].boids[k].direction_y = "Bottom"
        /\ FlockAfter(t)[k].direction_x = "Left"
        /\ FlockAfter(t)[k].direction_y = "Bottom"

FlippedX(t, i) == FlockAfter(t)[i].direction_x # hist[t].boids[i].direction_x
FlippedY(t, i) == FlockAfter(t)[i].direction_y # hist[t].boids[i].direction_y

----------------------------------------------------------------------------
\* the sum, over the peers j # i of agent i that were within protected_range
\* on some axis when tick t started, of position[i] - position[j] on axis a
CloseSum(t, i, a) ==
    SumOver(Near(hist[t].boids, i),
            [j \in 1..Len(hist[t].boids) |-> Disp(hist[t].boids, i, j, a)], 0)

\* C11 (separation result).  In every tick, the position separate leaves
\* agent i at is its position at the start of the tick plus, per axis,
\* avoid_factor times the sum over the triggering peers j # i of
\* position[i] - position[j] at the start of the tick (the product rounded to
\* the nearest representable value, so within half a unit of the exact one);
\* separate leaves the velocity and both flags as they were.
C11_SeparationResult ==
    \A t \in 1..Ticks : \A i \in 1..N :
        /\ \A a \in 1..2 :
              /\ Decided(t, i, a)
                    = hist[t].boids[i].position[a]
                         + RoundDiv(CloseSum(t, i, a), AVOID_FACTOR_INV)
              /\ 2 * Abs(AVOID_FACTOR_INV * NudgeOf(t, i, a) - CloseSum(t, i, a))
                    <= AVOID_FACTOR_INV
        /\ hist[t].log[i].sep_velocity = hist[t].boids[i].velocity
        /\ hist[t].log[i].sep_direction_x = hist[t].boids[i].direction_x
        /\ hist[t].log[i].sep_direction_y = hist[t].boids[i].direction_y

\* a tick in which separate moved an agent with two triggering peers at
\* different positions, on both axes, by exactly avoid_factor times the sum
\* of the two displacements
C11_Witness ==
    \E t \in 1..Ticks : \E i \in 1..N : \E j, k \in Near(hist[t].boids, i) :
        /\ hist[t].boids[j].position # hist[t].boids[k].position
        /\ CloseSum(t, i, 1) = Disp(hist[t].boids, i, j, 1) + Disp(hist[t].boids, i, k, 1)
        /\ CloseSum(t, i, 1) # 0
        /\ CloseSum(t, i, 2) # 0
        /\ AVOID_FACTOR_INV * NudgeOf(t, i, 1) = CloseSum(t, i, 1)
        /\ AVOID_FACTOR_INV * NudgeOf(t, i, 2) = CloseSum(t, i, 2)

----------------------------------------------------------------------------
\* what the integration step of tick t added to the position of agent i on
\* axis a: the position after the tick less the one separate left
Integrated(t, i, a) == FlockAfter(t)[i].position[a] - Decided(t, i, a)

\* C12 as stated: in every tick the flags are decided from the position
\* separate left, and the integration of the same tick uses them: at or
\* beyond the right (top) threshold the velocity is subtracted, at or beyond
\* the left (bottom) threshold it is added.
C12_Original ==
    \A t \in 1..Ticks : \A i \in 1..N :
        /\ AtRight(t, i) => Integrated(t, i, 1) = -FlockAfter(t)[i].velocity[1]
        /\ AtLeft(t, i) => Integrated(t, i, 1) = FlockAfter(t)[i].velocity[1]
        /\ AtTop(t, i) => Integrated(t, i, 2) = -FlockAfter(t)[i].velocity[2]
        /\ AtBottom(t, i) => Integrated(t, i, 2) = FlockAfter(t)[i].velocity[2]

\* C12 (step ordering), amended.  In every tick, per agent, the flags are
\* decided from the position separate left and the integration of the same
\* tick uses the flags just decided: at or beyond the right (top) threshold
\* velocity.x (velocity.y) is subtracted in that very tick; at or beyond the
\* left (bottom) threshold, and not also at or beyond the right (top) one,
\* it is added; at neither threshold it is applied in the sign of the flag
\* the agent came with.
C12_StepOrdering ==
    \A t \in 1..Ticks : \A i \in 1..N :
        /\ AtRight(t, i) => Integrated(t, i, 1) = -FlockAfter(t)[i].velocity[1]
        /\ (AtLeft(t, i) /\ ~AtRight(t, i))
              => Integrated(t, i, 1) = FlockAfter(t)[i].velocity[1]
        /\ (~AtLeft(t, i) /\ ~AtRight(t, i))
              => Integrated(t, i, 1)
                    = (IF hist[t].boids[i].direction_x = "Right"
                       THEN FlockAfter(t)[i].velocity[1]
                       ELSE -FlockAfter(t)[i].velocity[1])
        /\ AtTop(t, i) => Integrated(t, i, 2) = -FlockAfter(t)[i].velocity[2]
        /\ (AtBottom(t, i) /\ ~AtTop(t, i))
              => Integrated(t, i, 2) = FlockAfter(t)[i].velocity[2]
        /\ (~AtBottom(t, i) /\ ~AtTop(t, i))
              => Integrated(t, i, 2)
                    = (IF hist[t].boids[i].direction_y = "Top"
                       THEN FlockAfter(t)[i].velocity[2]
                       ELSE -FlockAfter(t)[i].velocity[2])

\* a tick that an agent heading Top started below the top threshold:
\* separate lifted it to the threshold, it was turned Bottom, and velocity.y
\* was subtracted in the same tick
C12_Witness ==
    \E t \in 1..Ticks : \E i \in 1..N :
        /\ hist[t].boids[i].direction_y = "Top"
        /\ hist[t].boids[i].position[2] < hist[t].boundary.top - F(MARGIN)
        /\ AtTop(t, i)
        /\ FlockAfter(t)[i].direction_y = "Bottom"
        /\ Integrated(t, i, 2) = -FlockAfter(t)[i].velocity[2]
        /\ FlockAfter(t)[i].velocity[2] > 0

----------------------------------------------------------------------------
\* the flock the run started with
StartFlock == IF Ticks = 0 THEN boids ELSE hist[1].boids

\* C13 (frame of a tick).  After any number of ticks the parameter bundle
\* is the one of startup, the flock has as many agents as at startup, in
\* the same order, each with the same fields, and every velocity component
\* that was <= max_speed at startup has its startup value; a tick leaves
\* the window rectangle alone; and every agent of a run started from the
\* flock of model() has velocity (4, 3) in every state.
C13_Frame ==
    /\ params = Params
    /\ Len(boids) = Len(StartFlock)
    /\ \A i \in 1..N :
          /\ DOMAIN boids[i] = DOMAIN StartFlock[i]
          /\ \A a \in 1..2 :
                StartFlock[i].velocity[a] <= F(MAX_SPEED)
                   => boids[i].velocity[a] = StartFlock[i].velocity[a]
    /\ \A t \in 1..Ticks :
          /\ Len(FlockAfter(t)) = Len(hist[t].boids)
          /\ t < Ticks => hist[t + 1].boundary = hist[t].boundary
          /\ \A i \in 1..N : \A a \in 1..2 :
                hist[t].boids[i].velocity[a] <= F(MAX_SPEED)
                   => FlockAfter(t)[i].velocity[a] = hist[t].boids[i].velocity[a]
    /\ StartFlock = Staggered =>
          /\ Len(boids) = NUM_BOIDS
          /\ \A i \in 1..N : boids[i].velocity = <<F(4), F(3)>>

\* two ticks after the flock of model() started: every agent has been moved
\* twice, agents have been nudged and turned Bottom, and the velocities and
\* the parameters are those of startup
C13_Witness ==
    /\ Ticks >= 2
    /\ hist[1].boids = Staggered
    /\ \A i \in 1..N :
          /\ boids[i].position # hist[2].boids[i].position
          /\ hist[2].boids[i].position # hist[1].boids[i].position
          /\ boids[i].velocity = <<F(4), F(3)>>
    /\ \E i \in 1..N : NudgeOf(2, i, 1) # 0 /\ boids[i].direction_y = "Bottom"
    /\ params = Params

----------------------------------------------------------------------------
\* C14 (totality).  In every state the snapshot of the flock has exactly as
\* many entries as the flock has agents, entry j being the position of agent
\* j; in every tick that ran, the index of every agent and every entry its
\* scan added lie within the snapshot and every agent was processed; and
\* from every state a tick has a result, with every agent processed,
\* whatever the size of the flock, the empty and the one-agent flock
\* included, and whatever the window rectangle.
C14_Totality ==
    /\ Len(Snapshot(boids)) = Len(boids)
    /\ \A j \in 1..N : Snapshot(boids)[j] = boids[j].position
    /\ \A t \in 1..Ticks :
          /\ Len(Snapshot(hist[t].boids)) = Len(hist[t].boids)
          /\ Len(hist[t].log) = Len(hist[t].boids)
          /\ Len(FlockAfter(t)) = Len(hist[t].boids)
          /\ \A i \in 1..Len(hist[t].boids) :
                /\ i \in DOMAIN Snapshot(hist[t].boids)
                /\ hist[t].log[i].peers \subseteq DOMAIN Snapshot(hist[t].boids)
    /\ LET st == UpdateIn(boids, RustOrder(boids), params, boundary)
       IN  /\ Len(st.boids) = Len(boids)
           /\ Len(st.log) = Len(boids)
           /\ \A i \in 1..N : st.log[i].peers \subseteq (1..N) \ {i}

\* the empty flock after two ticks against the 16 x 16 window: still empty,
\* and a further tick has the empty flock as its result
C14_Witness ==
    /\ N = 0
    /\ Ticks = 2
    /\ boundary = Rect(16, 16)
    /\ hist[2].log = <<>>
    /\ UpdateIn(boids, RustOrder(boids), params, boundary).boids = <<>>

----------------------------------------------------------------------------
\* whether the point pos lies in the rectangle b, edges included
Inside(pos, b) ==
    /\ b.left <= pos[1] /\ pos[1] <= b.right
    /\ b.bottom <= pos[2] /\ pos[2] <= b.top

\* C15 (containment) as stated: when the window rectangle, which the ticks
\* leave as it is, is more than twice the margin wide and high and every
\* agent of the flock started inside it, every agent is inside it after any
\* number of ticks, whatever the size of the flock.
C15_Containment ==
    (/\ boundary.right - boundary.left > 2 * F(MARGIN)
     /\ boundary.top - boundary.bottom > 2 * F(MARGIN)
     /\ \A i \in 1..Len(StartFlock) : Inside(StartFlock[i].position, boundary))
        => \A i \in 1..N : Inside(boids[i].position, boundary)

----------------------------------------------------------------------------
\* the sum over the agents of tick t of what separate accumulated on axis a
\* (close_dx for a = 1, close_dy for a = 2)
CloseTotal(t, a) ==
    SumOver(1..Len(hist[t].boids),
            [i \in 1..Len(hist[t].boids) |->
                IF a = 1 THEN hist[t].log[i].close_dx ELSE hist[t].log[i].close_dy],
            0)

\* the sum over the agents of tick t of the separation nudges on axis a
NudgeTotal(t, a) ==
    SumOver(1..Len(hist[t].boids),
            [i \in 1..Len(hist[t].boids) |-> NudgeOf(t, i, a)], 0)

----------------------------------------------------------------------------
\* C17 (threshold priority).  In every tick, an agent for which both
\* comparisons of the x axis hold, as they can only in a viewport no wider
\* than twice the margin, leaves the tick with direction_x Left, and one for
\* which both comparisons of the y axis hold with direction_y Bottom; an
\* agent is turned from Left to Right (from Bottom to Top) only in a tick
\* where the left (bottom) comparison holds and the right (top) one does not.
C17_ThresholdPriority ==
    \A t \in 1..Ticks : \A i \in 1..N :
        LET b == hist[t].boundary
            before == hist[t].boids[i]
            after == FlockAfter(t)[i]
        IN  /\ (AtRight(t, i) /\ AtLeft(t, i)) =>
                  /\ after.direction_x = "Left"
                  /\ b.right - b.left <= 2 * F(MARGIN)
            /\ (AtTop(t, i) /\ AtBottom(t, i)) =>
                  /\ after.direction_y = "Bottom"
                  /\ b.top - b.bottom <= 2 * F(MARGIN)
            /\ (before.direction_x = "Left" /\ after.direction_x = "Right")
                  => (AtLeft(t, i) /\ ~AtRight(t, i))
            /\ (before.direction_y = "Bottom" /\ after.direction_y = "Top")
                  => (AtBottom(t, i) /\ ~AtTop(t, i))
            /\ after.direction_x = "Right" => ~AtRight(t, i)
            /\ after.direction_y = "Top" => ~AtTop(t, i)

\* two consecutive ticks in the 16 x 16 window: in the first, an agent
\* heading Right met both comparisons of x and was turned Left while another
\* heading Top met both comparisons of y and was turned Bottom; in the
\* second, the first agent, now only at the left threshold, was turned Right
C17_Witness ==
    \E t \in 1..(Ticks - 1) : \E i, j \in 1..N :
        /\ hist[t].boundary = Rect(16, 16)
        /\ hist[t].boids[i].direction_x = "Right"
        /\ AtRight(t, i) /\ AtLeft(t, i)
        /\ FlockAfter(t)[i].direction_x = "Left"
        /\ hist[t].boids[j].direction_y = "Top"
        /\ AtTop(t, j) /\ AtBottom(t, j)
        /\ FlockAfter(t)[j].direction_y = "Bottom"
        /\ AtLeft(t + 1, i) /\ ~AtRight(t + 1, i)
        /\ FlockAfter(t + 1)[i].direction_x = "Right"

============================================================================
